---- MODULE Spec2Model ----
(***************************************************************************)
(* de::Koesling::Signal::SignalHandler: an RAII guard around the POSIX     *)
(* sigaction registration of one signal.  The model holds up to two guard  *)
(* objects, the process's signal-disposition table, the diagnostic stream  *)
(* and the process's exit status.                                          *)
(***************************************************************************)
EXTENDS Integers, Sequences, FiniteSets, TLC

VARIABLES
    guards,        \* object name -> the SignalHandler object stored there
    os,            \* the kernel's table: signal number -> struct sigaction
    last,          \* the operation that ran last, with its outcome
    exit_status,   \* <<>> while the process runs, then <<its exit status>>
    error_stream,  \* SignalHandler::error_stream: the stream it points to
    sink,          \* stream -> what has been written to it
    first_prior    \* history: <<the disposition active before the first establish()
                   \* of the round an object is in>>, <<>> outside a round

vars == <<guards, os, last, exit_status, error_stream, sink, first_prior>>

----------------------------------------------------------------------------
(* Bounds *)

\* number of distinct handler functions other parts of the process install
MaxForeign == 1

----------------------------------------------------------------------------
(* Platform values used by the source *)

nullptr == 0
SIG_IGN == 1
SIGHUP == 1
SIGKILL == 9
SIGSTOP == 19
SIGRTMAX == 64
SA_SIGINFO == 4
EX_OSERR == 71

Objects == {"A", "B"}
Streams == {"cerr", "custom"}

\* the caller's handler functions, by their addresses (SIG_DFL is 0, SIG_IGN
\* is 1): one of type SignalHandler_t, one of type SignalHandler_extended_t
SimpleHandlers == {SIG_IGN + 1}
ExtendedHandlers == {SIG_IGN + 2}
\* the handlers other parts of the process install
ForeignHandlers == (SIG_IGN + 3) .. (SIG_IGN + 2 + MaxForeign)

\* sa_flags is a bit mask; bit is a power of two
HasFlag(flags, bit) == (flags \div bit) % 2 = 1

\* mutant: the extended constructor without sa_flags |= SA_SIGINFO
SetFlag_dropped(flags, bit) == flags

SetFlag(flags, bit) == IF HasFlag(flags, bit) THEN flags ELSE flags + bit

\* memset(&action, 0, sizeof(action)): handler SIG_DFL, no flags, empty mask
ZeroAction == [sa_handler |-> 0, sa_flags |-> 0, sa_mask |-> {}]

\* the content of a struct sigaction that was never written
Indeterminate == [sa_handler |-> -1, sa_flags |-> 0, sa_mask |-> {}]

\* the action ignore() builds
IgnoreAction == [ZeroAction EXCEPT !.sa_handler = SIG_IGN]

\* the sigset_t *blocked_signals argument
NullMask == [null |-> TRUE, set |-> {}]
PointsTo(S) == [null |-> FALSE, set |-> S]

\* signals whose disposition the kernel lets a process change
CatchSignals == (SIGHUP .. SIGRTMAX) \ {SIGKILL, SIGSTOP}

\* the place of an object that does not exist
NoObject == [alive |-> FALSE, signal_number |-> 0, established |-> FALSE,
             curent_signal_action |-> ZeroAction,
             old_signal_action |-> Indeterminate]

NoArgs == [form |-> "none", signal_number |-> 0, handler_function |-> 0,
           sa_flags |-> 0, blocked_signals |-> NullMask]

----------------------------------------------------------------------------
(* The operating system *)

\* sigaction(signum, act, oact): the outcomes the kernel can produce.  An
\* invalid or protected signal number is always refused; any call may be
\* refused.  A refused call changes nothing and writes nothing to oact.
sigaction(table, signum, act) ==
    {[ret |-> -1, table |-> table, oact |-> Indeterminate, wrote |-> FALSE]}
    \cup
    (IF signum \in CatchSignals
     THEN {[ret |-> 0, table |-> [table EXCEPT ![signum] = act],
            oact |-> table[signum], wrote |-> TRUE]}
     ELSE {})

\* the values a read of a struct sigaction can give
ReadAction(a) ==
    IF a = Indeterminate
    THEN {ZeroAction, IgnoreAction}
    ELSE {a}

\* sysexcept(condition, function, errno): throws std::system_error
sysexcept(condition) == IF condition THEN "system_error" ELSE "ok"


----------------------------------------------------------------------------
(* Construction *)

\* the object a constructor leaves behind when it does not throw
NewObject(signal_number, handler_function, sa_flags, blocked_signals) ==
    [alive |-> TRUE,
     signal_number |-> signal_number,
     established |-> FALSE,
     curent_signal_action |->
        [sa_handler |-> handler_function,
         sa_flags |-> sa_flags,
         sa_mask |-> IF blocked_signals.null THEN {} ELSE blocked_signals.set],
     old_signal_action |-> Indeterminate]

\* mutant: the simple constructor without its test of the handler
simple_checks_no_null(signal_number, handler_function, sa_flags) ==
    IF HasFlag(sa_flags, SA_SIGINFO) THEN "invalid_argument"
    ELSE IF signal_number < SIGHUP \/ signal_number > SIGRTMAX THEN "invalid_argument"
    ELSE IF signal_number = SIGKILL THEN "invalid_argument"
    ELSE IF signal_number = SIGSTOP THEN "invalid_argument"
    ELSE "ok"

\* the checks of the constructor taking a SignalHandler_t, in their order
simple_checks(signal_number, handler_function, sa_flags) ==
    IF handler_function = nullptr THEN "invalid_argument"
    ELSE IF HasFlag(sa_flags, SA_SIGINFO) THEN "invalid_argument"
    ELSE IF signal_number < SIGHUP \/ signal_number > SIGRTMAX THEN "invalid_argument"
    ELSE IF signal_number = SIGKILL THEN "invalid_argument"
    ELSE IF signal_number = SIGSTOP THEN "invalid_argument"
    ELSE "ok"

\* the checks of the constructor taking a SignalHandler_extended_t, in their
\* order; the second test of SIGKILL is the source's
extended_checks(signal_number, handler_function) ==
    IF handler_function = nullptr THEN "invalid_argument"
    ELSE IF signal_number < SIGHUP \/ signal_number > SIGRTMAX THEN "logic_error"
    ELSE IF signal_number = SIGKILL THEN "logic_error"
    ELSE IF signal_number = SIGKILL THEN "logic_error"
    ELSE "ok"

\* SignalHandler(int, SignalHandler_t, int, sigset_t *)
SignalHandler_simple(signal_number, handler_function, sa_flags, blocked_signals) ==
    LET result == simple_checks(signal_number, handler_function, sa_flags)
    IN  [result |-> result,
         object |-> IF result = "ok"
                    THEN NewObject(signal_number, handler_function, sa_flags,
                                   blocked_signals)
                    ELSE NoObject]

\* SignalHandler(int, SignalHandler_extended_t, int, sigset_t *)
SignalHandler_extended(signal_number, handler_function, sa_flags, blocked_signals) ==
    LET forced == SetFlag(sa_flags, SA_SIGINFO)
        result == extended_checks(signal_number, handler_function)
    IN  [result |-> result,
         object |-> IF result = "ok"
                    THEN NewObject(signal_number, handler_function, forced,
                                   blocked_signals)
                    ELSE NoObject]

----------------------------------------------------------------------------
(* Methods, as functions of the object and of the kernel's answer *)

\* mutant: establish() never asks for the action it replaces
establish_never_passes_oact(obj) == FALSE

\* mutant: establish() hands &old_signal_action to every sigaction call
establish_always_passes_oact(obj) == TRUE

\* establish() hands &old_signal_action to sigaction only when not established
establish_passes_oact(obj) == ~obj.established

\* mutant: establish() sets established before it looks at the result
establish_object_unchecked(obj, r) ==
    LET captured == IF establish_passes_oact(obj) /\ r.wrote
                    THEN [obj EXCEPT !.old_signal_action = r.oact]
                    ELSE obj
    IN  [captured EXCEPT !.established = TRUE]

\* mutant: establish() hands &curent_signal_action to sigaction as the
\* output slot
establish_object_captures_current(obj, r) ==
    LET captured == IF establish_passes_oact(obj) /\ r.wrote
                    THEN [obj EXCEPT !.curent_signal_action = r.oact]
                    ELSE obj
    IN  IF sysexcept(r.ret # 0) = "ok"
        THEN [captured EXCEPT !.established = TRUE]
        ELSE captured

\* the object after establish(), r being what sigaction answered
establish_object(obj, r) ==
    LET captured == IF establish_passes_oact(obj) /\ r.wrote
                    THEN [obj EXCEPT !.old_signal_action = r.oact]
                    ELSE obj
    IN  IF sysexcept(r.ret # 0) = "ok"
        THEN [captured EXCEPT !.established = TRUE]
        ELSE captured

\* mutant: revoke() without its test of established
revoke_never_refused(obj) == FALSE

\* revoke() throws std::logic_error when the handler is not established
revoke_refused(obj) == ~obj.established

\* mutant: revoke() clears established before it looks at the result
revoke_object_unchecked(obj, r) == [obj EXCEPT !.established = FALSE]

\* the object after revoke()'s sigaction call answered r
revoke_object(obj, r) ==
    IF sysexcept(r.ret # 0) = "ok"
    THEN [obj EXCEPT !.established = FALSE]
    ELSE obj

\* revoke(): every way the call can end
revoke(obj, table) ==
    IF revoke_refused(obj)
    THEN {[result |-> "logic_error", object |-> obj, table |-> table,
           calls |-> 0, ret |-> 0]}
    ELSE {[result |-> sysexcept(r.ret # 0), object |-> revoke_object(obj, r),
           table |-> r.table, calls |-> 1, ret |-> r.ret] :
            r \in UNION {sigaction(table, obj.signal_number, a) :
                            a \in ReadAction(obj.old_signal_action)}}

\* mutant: a destructor that never restores
destructor_never_revokes(obj) == FALSE

\* the destructor calls revoke() only on an established handler
destructor_revokes(obj) == obj.established

\* mutant: ignore() without the assignment of SIG_IGN
ignore_action_zeroed == ZeroAction

\* the action ignore() installs
ignore_action == IgnoreAction

\* mutant: a move that leaves old_signal_action out
move_fields_without_old(other) ==
    [alive |-> TRUE,
     signal_number |-> other.signal_number,
     established |-> other.established,
     curent_signal_action |-> other.curent_signal_action,
     old_signal_action |-> Indeterminate]

\* the move constructor and the move assignment: std::move of an int, a bool
\* and a struct sigaction copies them and leaves the source as it was
move_fields(other) ==
    [alive |-> TRUE,
     signal_number |-> other.signal_number,
     established |-> other.established,
     curent_signal_action |-> other.curent_signal_action,
     old_signal_action |-> other.old_signal_action]


----------------------------------------------------------------------------
(* Inputs *)

\* what the callers of the main specification pass
SigInputs == {SIGHUP, SIGSTOP}
HandlerInputs(form) ==
    IF form = "simple" THEN SimpleHandlers ELSE ExtendedHandlers
FlagInputs == {0}
MaskInputs == {NullMask}

\* what the callers of the construction specification pass
AllSigInputs == (SIGHUP - 1) .. (SIGRTMAX + 1)
AllHandlerInputs(form) ==
    IF form = "simple"
    THEN {nullptr, SIG_IGN} \cup SimpleHandlers
    ELSE {nullptr} \cup ExtendedHandlers
AllFlagInputs == 0 .. (2 * SA_SIGINFO - 1)
AllMaskInputs == {NullMask, PointsTo({}), PointsTo({SIGHUP})}

\* the entries of the kernel's table the model keeps: those of the signals a
\* caller of the main specification can name
TableSignals == CatchSignals \cap SigInputs

\* what another part of the process may install
ExternalDispositions ==
    {ZeroAction} \cup {[ZeroAction EXCEPT !.sa_handler = h] : h \in ForeignHandlers}

\* the record of an operation: the object it ran on, the object it moved
\* from, how it ended ("ok" or the exception thrown, "exit" for a process
\* that was terminated), the sigaction calls it made, what the last of them
\* returned, whether it was handed an output slot, and a constructor's
\* arguments
NoOp == [op |-> "none", obj |-> "none", src |-> "none", result |-> "ok",
         calls |-> 0, ret |-> 0, oact |-> FALSE, args |-> NoArgs,
         dropped |-> <<>>]

Running == exit_status = <<>>

----------------------------------------------------------------------------
(* Initial state: no object exists, every signal has its default action *)

Init ==
    /\ guards = [g \in Objects |-> NoObject]
    /\ os = [s \in TableSignals |-> ZeroAction]
    /\ last = NoOp
    /\ exit_status = <<>>
    /\ error_stream = "cerr"
    /\ sink = [s \in Streams |-> <<>>]
    /\ first_prior = [g \in Objects |-> <<>>]

\* the construction specification starts from either of two tables, with the
\* arguments of the constructor call to come
InitCtor ==
    /\ guards = [g \in Objects |-> NoObject]
    /\ os \in {[s \in TableSignals |-> ZeroAction],
               [s \in TableSignals |-> IgnoreAction]}
    /\ \E form \in {"simple", "extended"}, s \in AllSigInputs,
          f \in AllFlagInputs, m \in AllMaskInputs :
            \E h \in AllHandlerInputs(form) :
               last = [NoOp EXCEPT !.args =
                          [form |-> form, signal_number |-> s,
                           handler_function |-> h, sa_flags |-> f,
                           blocked_signals |-> m]]
    /\ exit_status = <<>>
    /\ error_stream = "cerr"
    /\ sink = [s \in Streams |-> <<>>]
    /\ first_prior = [g \in Objects |-> <<>>]

----------------------------------------------------------------------------
(* Operations *)

\* SignalHandler g(signal_number, handler_function, sa_flags, blocked_signals)
Construct(g, form, signal_number, handler_function, sa_flags, blocked_signals) ==
    /\ Running
    /\ ~guards[g].alive
    /\ LET c == IF form = "simple"
                THEN SignalHandler_simple(signal_number, handler_function,
                                          sa_flags, blocked_signals)
                ELSE SignalHandler_extended(signal_number, handler_function,
                                            sa_flags, blocked_signals)
       IN  /\ guards' = [guards EXCEPT ![g] = c.object]
           /\ last' = [NoOp EXCEPT !.op = "construct", !.obj = g,
                          !.result = c.result,
                          !.args = [form |-> form,
                                    signal_number |-> signal_number,
                                    handler_function |-> handler_function,
                                    sa_flags |-> sa_flags,
                                    blocked_signals |-> blocked_signals]]
    /\ first_prior' = [first_prior EXCEPT ![g] = <<>>]
    /\ UNCHANGED <<os, exit_status, error_stream, sink>>

\* g.establish()
Establish(g) ==
    /\ Running
    /\ guards[g].alive
    /\ LET obj == guards[g]
       IN  \E r \in sigaction(os, obj.signal_number, obj.curent_signal_action) :
             /\ guards' = [guards EXCEPT ![g] = establish_object(obj, r)]
             /\ os' = r.table
             /\ last' = [NoOp EXCEPT !.op = "establish", !.obj = g,
                            !.result = sysexcept(r.ret # 0), !.calls = 1,
                            !.ret = r.ret, !.oact = establish_passes_oact(obj)]
             /\ first_prior' =
                   IF r.ret = 0 /\ ~obj.established
                   THEN [first_prior EXCEPT ![g] = <<os[obj.signal_number]>>]
                   ELSE first_prior
    /\ UNCHANGED <<exit_status, error_stream, sink>>

\* g.revoke()
Revoke(g) ==
    /\ Running
    /\ guards[g].alive
    /\ \E o \in revoke(guards[g], os) :
          /\ guards' = [guards EXCEPT ![g] = o.object]
          /\ os' = o.table
          /\ last' = [NoOp EXCEPT !.op = "revoke", !.obj = g,
                         !.result = o.result, !.calls = o.calls, !.ret = o.ret]
          /\ first_prior' = IF o.result = "ok"
                            THEN [first_prior EXCEPT ![g] = <<>>]
                            ELSE first_prior
    /\ UNCHANGED <<exit_status, error_stream, sink>>

\* g.ignore()
Ignore(g) ==
    /\ Running
    /\ guards[g].alive
    /\ \E r \in sigaction(os, guards[g].signal_number, ignore_action) :
          /\ os' = r.table
          /\ last' = [NoOp EXCEPT !.op = "ignore", !.obj = g,
                         !.result = sysexcept(r.ret # 0), !.calls = 1,
                         !.ret = r.ret]
    /\ UNCHANGED <<guards, exit_status, error_stream, sink, first_prior>>

\* destructor_exception_terminate(e, stream, exit_code): writes what the
\* exception says to the stream and ends the process with exit_code
destructor_exception_terminate(e, stream, exit_code) ==
    /\ sink' = [sink EXCEPT ![stream] = Append(@, e)]
    /\ exit_status' = <<exit_code>>

\* g's lifetime ends
Destroy(g) ==
    /\ Running
    /\ guards[g].alive
    /\ IF destructor_revokes(guards[g])
       THEN \E o \in revoke(guards[g], os) :
              /\ os' = o.table
              /\ IF o.result = "ok"
                 THEN /\ guards' = [guards EXCEPT ![g] = NoObject]
                      /\ last' = [NoOp EXCEPT !.op = "destroy", !.obj = g,
                                     !.calls = o.calls, !.ret = o.ret]
                      /\ UNCHANGED <<exit_status, sink>>
                 ELSE /\ guards' = [guards EXCEPT ![g] = o.object]
                      /\ last' = [NoOp EXCEPT !.op = "destroy", !.obj = g,
                                     !.result = "exit", !.calls = o.calls,
                                     !.ret = o.ret]
                      /\ destructor_exception_terminate(o.result, error_stream,
                                                        EX_OSERR)
       ELSE /\ guards' = [guards EXCEPT ![g] = NoObject]
            /\ last' = [NoOp EXCEPT !.op = "destroy", !.obj = g]
            /\ UNCHANGED <<os, exit_status, sink>>
    /\ first_prior' = [first_prior EXCEPT ![g] = <<>>]
    /\ UNCHANGED error_stream

\* SignalHandler dst(std::move(src))
MoveConstruct(dst, src) ==
    /\ Running
    /\ dst # src
    /\ ~guards[dst].alive
    /\ guards[src].alive
    /\ guards' = [guards EXCEPT ![dst] = move_fields(guards[src])]
    /\ last' = [NoOp EXCEPT !.op = "move_construct", !.obj = dst, !.src = src]
    /\ first_prior' = [first_prior EXCEPT ![dst] = <<>>]
    /\ UNCHANGED <<os, exit_status, error_stream, sink>>

\* dst = std::move(src)
MoveAssign(dst, src) ==
    /\ Running
    /\ guards[dst].alive
    /\ guards[src].alive
    /\ guards' = IF dst # src
                 THEN [guards EXCEPT ![dst] = move_fields(guards[src])]
                 ELSE guards
    /\ last' = [NoOp EXCEPT !.op = "move_assign", !.obj = dst, !.src = src,
                   !.dropped = IF dst # src /\ guards[dst].established
                               THEN <<guards[dst].old_signal_action>>
                               ELSE <<>>]
    /\ first_prior' = IF dst # src
                      THEN [first_prior EXCEPT ![dst] = <<>>]
                      ELSE first_prior
    /\ UNCHANGED <<os, exit_status, error_stream, sink>>

\* SignalHandler::set_error_stream(stream)
SetErrorStream(stream) ==
    /\ Running
    /\ error_stream' = stream
    /\ last' = [NoOp EXCEPT !.op = "set_error_stream"]
    /\ UNCHANGED <<guards, os, exit_status, sink, first_prior>>

\* another part of the process changes the disposition of a guarded signal
ExternalChange(g, d) ==
    /\ Running
    /\ guards[g].alive
    /\ guards[g].signal_number \in CatchSignals
    /\ os[guards[g].signal_number] # d
    /\ os' = [os EXCEPT ![guards[g].signal_number] = d]
    /\ last' = [NoOp EXCEPT !.op = "external", !.calls = 1]
    /\ UNCHANGED <<guards, exit_status, error_stream, sink, first_prior>>

----------------------------------------------------------------------------
(* Specifications *)

Next ==
    \/ \E g \in Objects, form \in {"simple", "extended"}, s \in SigInputs,
          f \in FlagInputs, m \in MaskInputs :
            \E h \in HandlerInputs(form) : Construct(g, form, s, h, f, m)
    \/ \E g \in Objects : Establish(g)
    \/ \E g \in Objects : Revoke(g)
    \/ \E g \in Objects : Ignore(g)
    \/ \E g \in Objects : Destroy(g)
    \/ \E dst \in Objects, src \in Objects : MoveConstruct(dst, src)
    \/ \E dst \in Objects, src \in Objects : MoveAssign(dst, src)
    \/ \E stream \in Streams : SetErrorStream(stream)
    \/ \E g \in Objects, d \in ExternalDispositions : ExternalChange(g, d)

Spec == Init /\ [][Next]_vars

\* construction alone, over every signal number, flag word and mask
ConstructGiven ==
    /\ last.op = "none"
    /\ Construct("A", last.args.form, last.args.signal_number,
                 last.args.handler_function, last.args.sa_flags,
                 last.args.blocked_signals)

NextCtor ==
    \/ ConstructGiven
    \/ Destroy("A")

SpecCtor == InitCtor /\ [][NextCtor]_vars

\* one object alone: no second object, no move, no other part of the process
\* touching the table
NextSingle ==
    \/ \E form \in {"simple", "extended"}, s \in SigInputs,
          f \in FlagInputs, m \in MaskInputs :
            \E h \in HandlerInputs(form) : Construct("A", form, s, h, f, m)
    \/ Establish("A")
    \/ Revoke("A")
    \/ Ignore("A")
    \/ Destroy("A")

SpecSingle == Init /\ [][NextSingle]_vars


----------------------------------------------------------------------------
(* Claims *)

\* the step just taken was operation op on object g
Did(op, g) == last'.op = op /\ last'.obj = g

SignalOf(g) == guards[g].signal_number

\* C1: after a successful establish() the kernel's disposition of the signal
\* is curent_signal_action; after the successful revoke() that ends a round
\* the object itself began, it is the disposition that was active right before
\* the round's first establish(), however often establish() was repeated.
C1_RoundTrip ==
    [][\A g \in Objects :
        /\ (Did("establish", g) /\ last'.result = "ok")
              => os'[SignalOf(g)] = guards'[g].curent_signal_action
        /\ (Did("revoke", g) /\ last'.result = "ok" /\ first_prior[g] # <<>>)
              => os'[SignalOf(g)] = first_prior[g][1]]_vars

\* C1 witness: a revoke() has just restored a disposition that is not the
\* object's own, after a round the object began
C1_Witness ==
    \E g \in Objects :
        /\ last.op = "revoke" /\ last.obj = g /\ last.result = "ok"
        /\ guards[g].old_signal_action # Indeterminate
        /\ os[SignalOf(g)] = guards[g].old_signal_action
        /\ os[SignalOf(g)] # guards[g].curent_signal_action

\* C2 (as claimed): once old_signal_action has been captured, no establish(),
\* revoke() or ignore() on the object changes it.
C2_PriorFixed ==
    [][\A g \in Objects :
        (/\ guards[g].alive
         /\ guards[g].old_signal_action # Indeterminate
         /\ last'.obj = g
         /\ last'.op \in {"establish", "revoke", "ignore"})
        => guards'[g].old_signal_action = guards[g].old_signal_action]_vars

\* C3 (as claimed): after a move from one object into another, the source is
\* not established.
C3_MovedFromCleared ==
    (last.op \in {"move_construct", "move_assign"} /\ last.src # last.obj)
        => ~guards[last.src].established

\* C4 (as claimed): no object for SIGKILL or SIGSTOP exists.
C4_NoProtectedGuard ==
    \A g \in Objects :
        guards[g].alive => guards[g].signal_number \notin {SIGKILL, SIGSTOP}

\* C5: revoke() on an object that is not established throws std::logic_error,
\* calls the kernel not at all, and leaves the table and the object as they were.
C5_RevokeNotEstablished ==
    [][\A g \in Objects :
        (Did("revoke", g) /\ ~guards[g].established)
        => /\ last'.result = "logic_error"
           /\ last'.calls = 0
           /\ os' = os
           /\ guards' = guards
           /\ ~guards'[g].established]_vars

\* C5 witness: a second revoke() after a completed round was refused
C5_Witness ==
    \E g \in Objects :
        /\ last.op = "revoke" /\ last.obj = g /\ last.result = "logic_error"
        /\ guards[g].old_signal_action # Indeterminate
        /\ ~guards[g].established

\* C6: the destructor of an established object calls the kernel once, to
\* restore old_signal_action; when that succeeds the object is gone, the
\* disposition is old_signal_action and the process runs on; when it fails the
\* failure is written to the stream error_stream points to and the process
\* exits with EX_OSERR.  The destructor of an object that is not established
\* calls nothing.  No exception leaves the destructor.
C6_Destructor ==
    [][\A g \in Objects :
        Did("destroy", g)
        => /\ last'.result \in {"ok", "exit"}
           /\ guards[g].established
                => /\ last'.calls = 1
                   /\ last'.ret = 0
                        => /\ last'.result = "ok"
                           /\ os'[SignalOf(g)] \in ReadAction(guards[g].old_signal_action)
                           /\ ~guards'[g].alive
                           /\ exit_status' = <<>>
                           /\ sink' = sink
                   /\ last'.ret # 0
                        => /\ last'.result = "exit"
                           /\ os' = os
                           /\ exit_status' = <<EX_OSERR>>
                           /\ sink' = [sink EXCEPT ![error_stream] =
                                          Append(@, "system_error")]
           /\ ~guards[g].established
                => /\ last'.calls = 0
                   /\ last'.result = "ok"
                   /\ os' = os
                   /\ ~guards'[g].alive
                   /\ exit_status' = <<>>
                   /\ sink' = sink]_vars

\* C6 witness: a destructor's restore failed after the stream was replaced
C6_Witness ==
    /\ last.op = "destroy" /\ last.result = "exit" /\ last.calls = 1
    /\ error_stream = "custom"
    /\ sink["custom"] # <<>>
    /\ exit_status = <<EX_OSERR>>

\* C7: ignore() leaves every object as it was, and when its kernel call
\* succeeds the signal's disposition is SIG_IGN with no flags and an empty mask.
C7_Ignore ==
    [][\A g \in Objects :
        Did("ignore", g)
        => /\ guards' = guards
           /\ last'.ret = 0
                => os'[SignalOf(g)] =
                     [sa_handler |-> SIG_IGN, sa_flags |-> 0, sa_mask |-> {}]]_vars

\* C7 witness: ignore() succeeded on an established object
C7_Witness ==
    \E g \in Objects :
        /\ last.op = "ignore" /\ last.obj = g /\ last.result = "ok"
        /\ guards[g].established
        /\ os[SignalOf(g)] = IgnoreAction

\* C8: when the kernel call of establish() fails, establish() throws
\* std::system_error and established keeps its value; established becomes true
\* only by a call that succeeded.
C8_EstablishFailure ==
    [][\A g \in Objects :
        Did("establish", g)
        => /\ last'.ret # 0
                => /\ last'.result = "system_error"
                   /\ guards'[g].established = guards[g].established
           /\ (guards'[g].established /\ ~guards[g].established)
                => last'.ret = 0]_vars

\* C8 witness: a repeated establish() failed on an established object
C8_Witness ==
    \E g \in Objects :
        /\ last.op = "establish" /\ last.obj = g /\ last.result = "system_error"
        /\ guards[g].established

\* C9: when the kernel call of revoke() fails on an established object,
\* revoke() throws std::system_error and the object stays established and
\* unchanged; when it succeeds, established is false.
C9_RevokeFailure ==
    [][\A g \in Objects :
        (Did("revoke", g) /\ guards[g].established)
        => /\ last'.calls = 1
           /\ last'.ret # 0
                => /\ last'.result = "system_error"
                   /\ guards'[g].established
                   /\ guards' = guards
           /\ last'.ret = 0
                => /\ last'.result = "ok"
                   /\ ~guards'[g].established]_vars

\* C9 witness: a revoke() failed and the object is still established
C9_Witness ==
    \E g \in Objects :
        /\ last.op = "revoke" /\ last.obj = g /\ last.result = "system_error"
        /\ guards[g].established

\* C10: a constructor makes no kernel call and changes no disposition; what
\* it builds is not established; and for every signal number from SIGHUP to
\* SIGRTMAX other than SIGKILL and SIGSTOP a null handler is refused with
\* std::invalid_argument while a non-null handler with no flags is accepted.
C10_Construction ==
    [][\A g \in Objects :
        Did("construct", g)
        => /\ last'.calls = 0
           /\ os' = os
           /\ ~guards'[g].established
           /\ guards'[g].alive <=> last'.result = "ok"
           /\ last'.args.signal_number \in CatchSignals
                => /\ last'.args.handler_function = nullptr
                        => last'.result = "invalid_argument"
                   /\ (last'.args.handler_function # nullptr
                         /\ last'.args.sa_flags = 0)
                        => /\ last'.result = "ok"
                           /\ guards'[g].signal_number = last'.args.signal_number
                           /\ guards'[g].curent_signal_action.sa_handler
                                 = last'.args.handler_function]_vars

\* C10 witness: a handler for SIGRTMAX was constructed while the table held
\* SIG_IGN everywhere
C10_Witness ==
    /\ last.op = "construct" /\ last.result = "ok"
    /\ last.args.signal_number = SIGRTMAX
    /\ guards["A"].alive
    /\ \A s \in DOMAIN os : os[s] = IgnoreAction


\* C11 (as claimed): a constructor call with a null handler, a signal number
\* outside SIGHUP..SIGRTMAX, SIGKILL or SIGSTOP, or (simple form) the
\* SA_SIGINFO flag, ends with std::invalid_argument, in either form.
C11_InvalidArgumentKind ==
    (/\ last.op = "construct"
     /\ \/ last.args.handler_function = nullptr
        \/ last.args.signal_number \notin CatchSignals
        \/ (last.args.form = "simple" /\ HasFlag(last.args.sa_flags, SA_SIGINFO)))
    => last.result = "invalid_argument"

\* C12: an object that was constructed has SA_SIGINFO in its sa_flags exactly
\* when the extended form built it; the extended form adds the flag to the
\* caller's flags and keeps the others, the simple form keeps the caller's
\* flags and refuses those that hold SA_SIGINFO.
C12_ShapeAndFlag ==
    [][\A g \in Objects :
        Did("construct", g)
        => /\ last'.result = "ok"
                => /\ HasFlag(guards'[g].curent_signal_action.sa_flags, SA_SIGINFO)
                        <=> last'.args.form = "extended"
                   /\ guards'[g].curent_signal_action.sa_flags \in
                        {last'.args.sa_flags, last'.args.sa_flags + SA_SIGINFO}
           /\ (last'.args.form = "simple"
                 /\ HasFlag(last'.args.sa_flags, SA_SIGINFO))
                => last'.result = "invalid_argument"]_vars

\* C12 witness: the extended form was given other flags without SA_SIGINFO
\* and the object holds them with SA_SIGINFO added
C12_Witness ==
    /\ last.op = "construct" /\ last.result = "ok"
    /\ last.args.form = "extended"
    /\ last.args.sa_flags # 0
    /\ ~HasFlag(last.args.sa_flags, SA_SIGINFO)
    /\ guards["A"].curent_signal_action.sa_flags
          = last.args.sa_flags + SA_SIGINFO


\* C13: establish() on an established object leaves old_signal_action as it
\* was and hands the kernel no output slot; when its call succeeds the object
\* is still established and the signal's disposition is curent_signal_action.
C13_Reestablish ==
    [][\A g \in Objects :
        (Did("establish", g) /\ guards[g].established)
        => /\ guards'[g].old_signal_action = guards[g].old_signal_action
           /\ ~last'.oact
           /\ guards'[g].established
           /\ last'.ret = 0
                => os'[SignalOf(g)] = guards[g].curent_signal_action]_vars

\* C13 witness: a repeated establish() succeeded while the object keeps the
\* disposition its first establish() captured
C13_Witness ==
    \E g \in Objects :
        /\ last.op = "establish" /\ last.obj = g /\ last.result = "ok"
        /\ ~last.oact
        /\ first_prior[g] = <<guards[g].old_signal_action>>
        /\ os[SignalOf(g)] = guards[g].curent_signal_action
        /\ os[SignalOf(g)] # guards[g].old_signal_action

\* C14: the signal number and curent_signal_action of an object that exists
\* change only when the object is the destination of a move assignment;
\* establish(), revoke(), ignore() and a destructor leave them as they were,
\* whether their kernel call succeeds or fails.
C14_PendingFrame ==
    [][\A g \in Objects :
        (/\ guards[g].alive
         /\ guards'[g].alive
         /\ \/ guards'[g].signal_number # guards[g].signal_number
            \/ guards'[g].curent_signal_action # guards[g].curent_signal_action)
        => Did("move_assign", g)]_vars

\* C14 witness: a revoke() failed on an object built by the extended form
C14_Witness ==
    \E g \in Objects :
        /\ last.op = "revoke" /\ last.obj = g /\ last.result = "system_error"
        /\ guards[g].alive
        /\ guards[g].curent_signal_action.sa_handler \in ExtendedHandlers
        /\ HasFlag(guards[g].curent_signal_action.sa_flags, SA_SIGINFO)


\* C15 (as claimed): with one object alone, an established object's
\* curent_signal_action is the signal's disposition.
C15_EstablishedMeansActive ==
    guards["A"].established
        => os[SignalOf("A")] = guards["A"].curent_signal_action

\* C15 (amended): with one object alone, the disposition of an established
\* object's signal is curent_signal_action or, after ignore(), the action
\* ignore() installs; and it is curent_signal_action whenever
\* establish() has just succeeded.
C15_EstablishedActiveOrIgnored ==
    guards["A"].established
        => /\ os[SignalOf("A")] \in
                {guards["A"].curent_signal_action, IgnoreAction}
           /\ (last.op = "establish" /\ last.result = "ok")
                => os[SignalOf("A")] = guards["A"].curent_signal_action

\* C15 witness: an established object whose signal is ignored
C15_Witness ==
    /\ guards["A"].established
    /\ last.op = "ignore" /\ last.result = "ok"
    /\ os[SignalOf("A")] = IgnoreAction
    /\ os[SignalOf("A")] # guards["A"].curent_signal_action


\* C16: every sigaction call made by revoke() or by the destructor hands the
\* kernel an old_signal_action that a sigaction call has written, never the
\* indeterminate value the constructors leave, and a successful call
\* installs exactly that value.
C16_RestoreCaptured ==
    [][\A g \in Objects :
        ((Did("revoke", g) \/ Did("destroy", g)) /\ last'.calls = 1)
        => /\ guards[g].old_signal_action # Indeterminate
           /\ (last'.ret = 0 /\ SignalOf(g) \in TableSignals)
                => os'[SignalOf(g)] = guards[g].old_signal_action]_vars

\* C16 witness: a destructor has restored a captured action while another
\* object still holds the indeterminate value of its constructor
C16_Witness ==
    \E g \in Objects, o \in Objects :
        /\ last.op = "destroy" /\ last.obj = g
        /\ last.calls = 1 /\ last.ret = 0
        /\ guards[o].alive /\ ~guards[o].established
        /\ guards[o].old_signal_action = Indeterminate


\* a move into g from another object
MovedInto(g) ==
    /\ Did("move_construct", g) \/ Did("move_assign", g)
    /\ last'.src # g

\* a sigaction call of revoke() or of the destructor of g that succeeded
Restored(g) ==
    /\ Did("revoke", g) \/ Did("destroy", g)
    /\ last'.calls = 1 /\ last'.ret = 0
    /\ SignalOf(g) \in TableSignals

OnTopOf(b, a) ==
    /\ a # b
    /\ guards[a].alive /\ guards[b].alive
    /\ SignalOf(a) = SignalOf(b)
    /\ guards[b].established
    /\ first_prior[b] = <<guards[a].curent_signal_action>>

\* C18: with b established on top of an established a, a successful
\* b.revoke() leaves a's curent_signal_action installed and a established,
\* and the successful a.revoke() after it leaves what was installed before
\* a's first establish(); in the other order, a.revoke() first, the
\* successful b.revoke() leaves a's curent_signal_action installed with
\* neither object established.
C18_StackOrder ==
    [][\A a \in Objects, b \in Objects :
        /\ (OnTopOf(b, a) /\ guards[a].established
              /\ Did("revoke", b) /\ last'.result = "ok")
            => /\ os'[SignalOf(a)] = guards[a].curent_signal_action
               /\ guards'[a].established /\ ~guards'[b].established
        /\ (a # b /\ last.op = "revoke" /\ last.obj = b /\ last.result = "ok"
              /\ guards[a].established /\ first_prior[a] # <<>>
              /\ Did("revoke", a) /\ last'.result = "ok")
            => /\ os'[SignalOf(a)] = first_prior[a][1]
               /\ ~guards'[a].established
        /\ (OnTopOf(b, a) /\ ~guards[a].established
              /\ last.op = "revoke" /\ last.obj = a /\ last.result = "ok"
              /\ Did("revoke", b) /\ last'.result = "ok")
            => /\ os'[SignalOf(a)] = guards[a].curent_signal_action
               /\ ~guards'[a].established /\ ~guards'[b].established]_vars

\* C18 witness: b.revoke() has succeeded after a.revoke(), neither object is
\* established, and a's curent_signal_action, which differs from b's, is
\* installed
C18_Witness ==
    \E a \in Objects, b \in Objects :
        /\ a # b
        /\ guards[a].alive /\ guards[b].alive
        /\ SignalOf(a) = SignalOf(b)
        /\ last.op = "revoke" /\ last.obj = b /\ last.result = "ok"
        /\ ~guards[a].established /\ ~guards[b].established
        /\ guards[a].curent_signal_action # guards[b].curent_signal_action
        /\ guards[b].old_signal_action = guards[a].curent_signal_action
        /\ os[SignalOf(a)] = guards[a].curent_signal_action


\* g.ignore() has just succeeded
JustIgnored(g) ==
    /\ last.op = "ignore" /\ last.obj = g /\ last.result = "ok"
    /\ guards[g].alive
    /\ SignalOf(g) \in TableSignals

\* C19: a revoke() that follows ignore() on an established object is not
\* refused and, when its sigaction call succeeds, clears established and
\* leaves what was installed before the object's first establish(); a first
\* establish() that follows ignore() captures the action ignore() installed
\* as old_signal_action, and the successful revoke() after it installs that
\* action again.
C19_IgnoreAndRestore ==
    [][\A g \in Objects :
        /\ (JustIgnored(g) /\ guards[g].established /\ Did("revoke", g))
            => /\ last'.calls = 1
               /\ last'.ret = 0
                    => /\ last'.result = "ok"
                       /\ ~guards'[g].established
                       /\ first_prior[g] # <<>>
                            => os'[SignalOf(g)] = first_prior[g][1]
        /\ (JustIgnored(g) /\ ~guards[g].established
              /\ Did("establish", g) /\ last'.ret = 0)
            => /\ guards'[g].established
               /\ guards'[g].old_signal_action = ignore_action
               /\ os'[SignalOf(g)] = guards[g].curent_signal_action
        /\ (last.op = "establish" /\ last.obj = g /\ last.result = "ok"
              /\ guards[g].alive
              /\ first_prior[g] = <<ignore_action>>
              /\ Did("revoke", g) /\ last'.ret = 0)
            => /\ last'.result = "ok"
               /\ ~guards'[g].established
               /\ os'[SignalOf(g)] = ignore_action]_vars

\* C19 witness: revoke() has put back the action of an ignore() that came
\* before the object's establish()
C19_Witness ==
    \E g \in Objects :
        /\ last.op = "revoke" /\ last.obj = g /\ last.result = "ok"
        /\ last.calls = 1
        /\ guards[g].alive /\ ~guards[g].established
        /\ guards[g].old_signal_action = ignore_action
        /\ guards[g].curent_signal_action # ignore_action
        /\ os[SignalOf(g)] = ignore_action

====
